---- MODULE Spec2Model ----
(***************************************************************************)
(* Model of the review-scoring pipeline of project_minesweeper:            *)
(*   app/services.py  FeatureEngineer  (normalisation, keyword counts,     *)
(*                    phrase extraction, trend analysis)                   *)
(*   app/models.py    LandmineScorer   (sub-scores F1 F2 F3 F5, weighted   *)
(*                    final score, summary)                                *)
(*   app/main.py      analyze_place    (pipeline driver, risk tier)        *)
(*                                                                         *)
(* Numbers.  Python floats are modelled by exact rationals <<num, den>>    *)
(* in lowest terms with den > 0.  Weights are kept in hundredths,          *)
(* sentiment scores and the declared aggregate rating in tenths,           *)
(* trend_score in thousandths (the code rounds it to 3 places).            *)
(* Texts are sequences of tokens: words, the separator "," and the         *)
(* blank " ".  A keyword is one word, so "keyword in sentence" is          *)
(* occurrence of the word in the sentence.                                 *)
(***************************************************************************)
EXTENDS Integers, Sequences, FiniteSets, TLC

(***************************************************************************)
(* Bounds of the model.                                                    *)
(***************************************************************************)
\* a batch is i copies of one review followed by j copies of another,
\* i in 0..MaxHead and j in {0, BulkLen}
MaxHead == 1
BulkLen == 9
\* the clock stops advancing at MaxNow (days)
MaxNow == 130

(***************************************************************************)
(* Exact rational arithmetic.                                              *)
(***************************************************************************)
Abs(x) == IF x < 0 THEN 0 - x ELSE x

RECURSIVE GCD(_, _)
GCD(a, b) == IF b = 0 THEN a ELSE GCD(b, a % b)

Rat(n, d) ==
    LET g == GCD(Abs(n), Abs(d))
        s == IF d < 0 THEN 0 - 1 ELSE 1
    IN  << (s * n) \div g, (s * d) \div g >>

RatInt(n) == << n, 1 >>
RatAdd(a, b) == Rat(a[1] * b[2] + b[1] * a[2], a[2] * b[2])
RatSub(a, b) == Rat(a[1] * b[2] - b[1] * a[2], a[2] * b[2])
RatScale(a, n, d) == Rat(a[1] * n, a[2] * d)
RatLess(a, b) == a[1] * b[2] < b[1] * a[2]
RatLeq(a, b) == a[1] * b[2] <= b[1] * a[2]
RatMin(a, b) == IF RatLess(b, a) THEN b ELSE a
RatMax(a, b) == IF RatLess(a, b) THEN b ELSE a

\* Python round(x, k) on x = a[1]/a[2], as an integer count of 1/scale
\* (scale = 10^k); an exact tie goes to the even neighbour
Round(a, scale) ==
    LET n2 == 2 * a[1] * scale
        d2 == 2 * a[2]
        lo == n2 \div d2
        rem == n2 - lo * d2
    IN  IF 2 * rem < d2 THEN lo
        ELSE IF 2 * rem > d2 THEN lo + 1
        ELSE IF lo % 2 = 0 THEN lo ELSE lo + 1

(***************************************************************************)
(* Python dict access.                                                     *)
(***************************************************************************)
EmptyDict == [k \in {} |-> 0]
DictGet(d, k, default) == IF k \in DOMAIN d THEN d[k] ELSE default

Range(s) == { s[i] : i \in DOMAIN s }

RECURSIVE SumSeq(_)
SumSeq(s) == IF s = <<>> THEN 0 ELSE Head(s) + SumSeq(Tail(s))

RECURSIVE Rep(_, _)
Rep(x, n) == IF n = 0 THEN <<>> ELSE <<x>> \o Rep(x, n - 1)

(***************************************************************************)
(* Inputs: the lexicon file, the texts, the raw reviews, the venue         *)
(* metadata, the weights.                                                  *)
(***************************************************************************)
\* data/keywords.json as FeatureEngineer.__init__ reads it
KeywordsFile ==
    [ high_risk       |-> {"poison"},
      medium_risk     |-> {"rude"},
      low_risk        |-> {"slow"},
      positive_points |-> {"tasty"} ]

\* what open and json.load find at keywords_path: the file, no file, or a
\* file whose text is not JSON
LexiconSources == { "file", "missing", "malformed" }

\* sentence separators of the split pattern, and the blank that strip removes
Separators == { "," }
Blank == " "

TPlain     == << "w" >>
TBlank     == << " " >>
TGood      == << "tasty", ",", " ", "w" >>
TQuota     == << "poison", ",", "rude", "w", ",", " ", "slow", ",", "tasty", "rude" >>
TBoth      == << "tasty", "rude" >>
TPos3      == << "tasty", ",", "tasty", "w", ",", "w", "tasty" >>
TSlowHappy == << "slow", ",", "w", "w" >>
TAngry     == << "w", "w", "w" >>
TNeg3      == << "poison", ",", "rude", "w", ",", " ", "slow" >>

\* what the call of the sentiment service does for a text: it raises (a
\* timeout, a throttled or refused request), or it answers with an error
\* document, or with the label and the confidence of that label, in tenths
AzureAnalyze(text) ==
    CASE text = TGood      -> [raises |-> FALSE, is_error |-> FALSE,
                               sentiment |-> "positive", confidence |-> 6]
      [] text = TPos3      -> [raises |-> FALSE, is_error |-> FALSE,
                               sentiment |-> "positive", confidence |-> 10]
      [] text = TSlowHappy -> [raises |-> FALSE, is_error |-> FALSE,
                               sentiment |-> "positive", confidence |-> 10]
      [] text = TQuota     -> [raises |-> FALSE, is_error |-> FALSE,
                               sentiment |-> "negative", confidence |-> 10]
      [] text = TAngry     -> [raises |-> FALSE, is_error |-> FALSE,
                               sentiment |-> "negative", confidence |-> 10]
      [] text = TBoth      -> [raises |-> FALSE, is_error |-> TRUE,
                               sentiment |-> "none", confidence |-> 0]
      [] text = TNeg3      -> [raises |-> TRUE, is_error |-> FALSE,
                               sentiment |-> "none", confidence |-> 0]
      [] OTHER             -> [raises |-> FALSE, is_error |-> FALSE,
                               sentiment |-> "neutral", confidence |-> 10]

\* publishedAtDate strings and the day pd.to_datetime reads from them;
\* -1 stands for a string it cannot parse
DayOld == "2024-01-01T00:00:00.000Z"
DayRecent == "2024-01-31T00:00:00.000Z"
DayGarbage == "yesterday-ish"
pd_to_datetime(s) ==
    CASE s = DayOld    -> 0
      [] s = DayRecent -> 30
      [] OTHER         -> 0 - 1

\* raw review records as the scraper or the cache supplies them
RawReviews ==
    { [stars |-> 5, text |-> TPlain,     publishedAtDate |-> DayRecent],
      [stars |-> 5, text |-> TPlain,     publishedAtDate |-> DayOld],
      [stars |-> 1, text |-> TPlain,     publishedAtDate |-> DayRecent],
      [stars |-> 5, text |-> TGood,      publishedAtDate |-> DayRecent],
      [stars |-> 1, text |-> TQuota,     publishedAtDate |-> DayRecent],
      [stars |-> 3, text |-> TBoth,      publishedAtDate |-> DayOld],
      [stars |-> 5, text |-> TPos3,      publishedAtDate |-> DayOld],
      [stars |-> 4, text |-> TSlowHappy, publishedAtDate |-> DayRecent],
      [stars |-> 1, text |-> TAngry,     publishedAtDate |-> DayOld],
      [stars |-> 2, text |-> TNeg3,      publishedAtDate |-> DayRecent],
      [stars |-> 5, text |-> TBlank,     publishedAtDate |-> DayRecent],
      [stars |-> 5, publishedAtDate |-> DayRecent],
      [text |-> TPlain, publishedAtDate |-> DayRecent],
      [stars |-> 5, text |-> TPlain],
      [stars |-> 5, text |-> TPlain,     publishedAtDate |-> DayGarbage] }

\* the reviews whose text holds a lexicon keyword
KeywordReviews ==
    { r \in RawReviews :
        /\ DOMAIN r = { "stars", "text", "publishedAtDate" }
        /\ \E k \in DOMAIN r.text :
              r.text[k] \in { "poison", "rude", "slow", "tasty" } }

\* the reviews that differ in rating and date only
RatedReviews ==
    { r \in RawReviews :
        /\ DOMAIN r = { "stars", "text", "publishedAtDate" }
        /\ r.text = TPlain
        /\ r.publishedAtDate \in { DayOld, DayRecent } }

\* batches of a head and a bulk of equal reviews, every pair of reviews
\* with keywords, and batches around the number of recent reviews that the
\* trend needs (5 in the bulk)
Batches ==
    { Rep(a, i) \o Rep(b, j) :
        a \in RawReviews, b \in RawReviews, i \in 0..MaxHead, j \in {0, BulkLen} }
    \cup { << a, b >> : a \in KeywordReviews, b \in KeywordReviews }
    \cup { Rep(a, i) \o Rep(b, 5) :
             a \in RatedReviews, b \in RatedReviews, i \in 0..MaxHead }

\* venue metadata: declared count, declared star distribution and
\* declared aggregate rating (tenths), each optional
Metas ==
    { EmptyDict,
      [reviewsCount |-> 10, reviewsDistribution |-> [oneStar |-> 8, twoStar |-> 2]],
      [reviewsCount |-> 10, reviewsDistribution |-> EmptyDict, totalScore |-> 50],
      [reviewsCount |-> 0,  reviewsDistribution |-> [oneStar |-> 8, twoStar |-> 2],
       totalScore |-> 43],
      [reviewsCount |-> 10, reviewsDistribution |-> [oneStar |-> 1], totalScore |-> 30] }

PlaceInfos == { m @@ ("reviews" :> b) : m \in Metas, b \in Batches }

\* weights in hundredths
DefaultWeights ==
    [f1_neg_reviews |-> 25, f2_keywords |-> 45, f3_trend |-> 15, f5_sentiment |-> 15]
WeightConfigs ==
    { DefaultWeights,
      [f1_neg_reviews |-> 400, f2_keywords |-> 400, f3_trend |-> 400, f5_sentiment |-> 400],
      [f1_neg_reviews |-> 0 - 100, f2_keywords |-> 0 - 50, f3_trend |-> 0 - 100,
       f5_sentiment |-> 0 - 100] }

(***************************************************************************)
(* app/sentiment.py                                                        *)
(***************************************************************************)
\* sentiment score of a text in tenths; client is "None" when the
\* credentials were not found at import time
\* variant: a call that raises counts as the most negative sentiment
get_sentiment_score_failure_as_negative(text, client) ==
    IF client = "None" THEN 0
    ELSE LET response == AzureAnalyze(text)
         IN  IF response.raises THEN 0 - 10
             ELSE IF response.is_error THEN 0
             ELSE IF response.sentiment = "positive" THEN response.confidence
             ELSE IF response.sentiment = "negative" THEN 0 - response.confidence
             ELSE 0

get_sentiment_score(text, client) ==
    IF client = "None" THEN 0
    ELSE LET response == AzureAnalyze(text)
         IN  IF response.raises THEN 0
             ELSE IF response.is_error THEN 0
             ELSE IF response.sentiment = "positive" THEN response.confidence
             ELSE IF response.sentiment = "negative" THEN 0 - response.confidence
             ELSE 0

(***************************************************************************)
(* app/services.py: FeatureEngineer                                        *)
(***************************************************************************)
\* the keyword sets __init__ leaves on the instance
\* raised: json.load raises JSONDecodeError, which the one except clause
\* (FileNotFoundError) does not catch, so no engineer is constructed
FeatureEngineerInit(source) ==
    IF source = "file"
    THEN LET high == DictGet(KeywordsFile, "high_risk", {})
             medium == DictGet(KeywordsFile, "medium_risk", {})
             low == DictGet(KeywordsFile, "low_risk", {})
         IN  [ raised           |-> FALSE,
               high_risk_set    |-> high,
               medium_risk_set  |-> medium,
               low_risk_set     |-> low,
               positive_set     |-> DictGet(KeywordsFile, "positive_points", {}),
               all_negative_set |-> (high \cup medium) \cup low ]
    ELSE [ raised |-> (source # "missing"),
           high_risk_set |-> {}, medium_risk_set |-> {}, low_risk_set |-> {},
           positive_set |-> {}, all_negative_set |-> {} ]

\* jieba.cut(text) collected into a set of words
calculate_f2_keywords_jieba(text, lex) ==
    LET word_set == Range(text)
    IN  [ high_risk_keyword_count   |-> Cardinality(lex.high_risk_set \cap word_set),
          medium_risk_keyword_count |-> Cardinality(lex.medium_risk_set \cap word_set),
          low_risk_keyword_count    |-> Cardinality(lex.low_risk_set \cap word_set) ]

\* re.split on the separators: the pieces between separators, empty ones kept
RECURSIVE re_split(_)
re_split(text) ==
    IF text = <<>> THEN << <<>> >>
    ELSE LET rest == re_split(Tail(text))
         IN  IF Head(text) \in Separators
             THEN << <<>> >> \o rest
             ELSE << <<Head(text)>> \o Head(rest) >> \o Tail(rest)

\* str.strip
RECURSIVE lstrip(_)
lstrip(s) == IF s # <<>> /\ Head(s) = Blank THEN lstrip(Tail(s)) ELSE s
RECURSIVE rstrip(_)
rstrip(s) ==
    IF s # <<>> /\ s[Len(s)] = Blank THEN rstrip(SubSeq(s, 1, Len(s) - 1)) ELSE s
strip(s) == rstrip(lstrip(s))

\* "keyword in sentence" for some keyword of the set
HasKeyword(sentence, keywords) == \E keyword \in keywords : keyword \in Range(sentence)

\* variant: the negative test stops after 2 phrases
FoundNegative_quota_two(sentence, negative_phrases, lex) ==
    Len(negative_phrases) < 2 /\ HasKeyword(sentence, lex.all_negative_set)

\* the negative test of one sentence: made only while fewer than 3 negative
\* phrases were taken from this text
FoundNegative(sentence, negative_phrases, lex) ==
    Len(negative_phrases) < 3 /\ HasKeyword(sentence, lex.all_negative_set)

RECURSIVE ExtractLoop(_, _, _, _)
ExtractLoop(sentences, positive_phrases, negative_phrases, lex) ==
    IF sentences = <<>>
    THEN [positive |-> positive_phrases, negative |-> negative_phrases]
    ELSE LET sentence == strip(Head(sentences))
             rest == Tail(sentences)
         IN  IF sentence = <<>>
             THEN ExtractLoop(rest, positive_phrases, negative_phrases, lex)
             ELSE IF FoundNegative(sentence, negative_phrases, lex)
             THEN ExtractLoop(rest, positive_phrases,
                              Append(negative_phrases, sentence), lex)
             ELSE IF Len(positive_phrases) < 2 /\ HasKeyword(sentence, lex.positive_set)
             THEN ExtractLoop(rest, Append(positive_phrases, sentence),
                              negative_phrases, lex)
             ELSE ExtractLoop(rest, positive_phrases, negative_phrases, lex)

extract_key_phrases(text, lex) == ExtractLoop(re_split(text), <<>>, <<>>, lex)

Mean(column) == Rat(SumSeq(column), Len(column))
Column(df, name) == [i \in DOMAIN df |-> df[i][name]]

\* days of the recent window
RecentDays == 90
MinRecent == 5

\* the rows published within the window that ends at now
RecentReviews(df, now) == SelectSeq(df, LAMBDA row : row.datetime >= now - RecentDays)

\* variant: 5 recent reviews are enough
calculate_f3_trend_from_five(df, place_info, now) ==
    LET historical_avg_rating ==
            IF "totalScore" \in DOMAIN place_info
            THEN Rat(place_info["totalScore"], 10)
            ELSE Mean(Column(df, "rating"))
        recent_reviews == RecentReviews(df, now)
        enough == Len(recent_reviews) >= MinRecent
        recent_avg_rating == Mean(Column(recent_reviews, "rating"))
        trend_score == IF enough THEN RatSub(historical_avg_rating, recent_avg_rating)
                       ELSE RatInt(0)
    IN  [ historical_avg |-> Round(historical_avg_rating, 100),
          recent_avg     |-> IF enough THEN << Round(recent_avg_rating, 100) >> ELSE <<>>,
          trend_score    |-> Round(trend_score, 1000) ]

calculate_f3_trend(df, place_info, now) ==
    LET historical_avg_rating ==
            IF "totalScore" \in DOMAIN place_info
            THEN Rat(place_info["totalScore"], 10)
            ELSE Mean(Column(df, "rating"))
        recent_reviews == RecentReviews(df, now)
        enough == Len(recent_reviews) > MinRecent
        recent_avg_rating == Mean(Column(recent_reviews, "rating"))
        trend_score == IF enough THEN RatSub(historical_avg_rating, recent_avg_rating)
                       ELSE RatInt(0)
    IN  \* historical_avg and recent_avg in hundredths, trend_score in
        \* thousandths; recent_avg <<>> stands for "N/A"
        [ historical_avg |-> Round(historical_avg_rating, 100),
          recent_avg     |-> IF enough THEN << Round(recent_avg_rating, 100) >> ELSE <<>>,
          trend_score    |-> Round(trend_score, 1000) ]

\* dict.fromkeys(items): first occurrences, in order
RECURSIVE Dedup(_)
Dedup(items) ==
    IF items = <<>> THEN <<>>
    ELSE LET front == Dedup(SubSeq(items, 1, Len(items) - 1))
             last == items[Len(items)]
         IN  IF last \in Range(front) THEN front ELSE Append(front, last)

Take(items, n) == SubSeq(items, 1, IF Len(items) < n THEN Len(items) ELSE n)

RECURSIVE Flatten(_)
Flatten(lists) == IF lists = <<>> THEN <<>> ELSE Head(lists) \o Flatten(Tail(lists))

RequiredCols == { "stars", "text", "publishedAtDate" }

\* the columns of pd.DataFrame(reviews_list): every key of every record
Columns(reviews_list) == UNION { DOMAIN reviews_list[i] : i \in DOMAIN reviews_list }

\* variant: every record must carry every required field
HasRequiredCols_every_row(reviews_list) ==
    \A i \in DOMAIN reviews_list : RequiredCols \subseteq DOMAIN reviews_list[i]

\* the check that every required source column exists in the frame
HasRequiredCols(reviews_list) == \A col \in RequiredCols : col \in Columns(reviews_list)

\* df[required].dropna(): a record without a key has NaN in that column
DropNa(reviews_list) ==
    SelectSeq(reviews_list, LAMBDA review : RequiredCols \subseteq DOMAIN review)

\* rename, then keep the rows whose stripped text is not empty
Normalize(reviews_list) ==
    LET renamed == [i \in DOMAIN DropNa(reviews_list) |->
                      [ rating       |-> DropNa(reviews_list)[i].stars,
                        text         |-> DropNa(reviews_list)[i].text,
                        datetime_str |-> DropNa(reviews_list)[i].publishedAtDate ]]
    IN  SelectSeq(renamed, LAMBDA row : strip(row.text) # <<>>)

NoneRun == [kind |-> "none", df |-> <<>>, trend_info |-> EmptyDict, key_phrases |-> EmptyDict]

\* variant: an empty table is reported like a missing column
EmptyRun_as_none == NoneRun

\* the (pd.DataFrame(), {}, {}) return
EmptyRun == [kind |-> "ok", df |-> <<>>, trend_info |-> EmptyDict, key_phrases |-> EmptyDict]
RaisedRun == [kind |-> "raised", df |-> <<>>, trend_info |-> EmptyDict,
              key_phrases |-> EmptyDict]

\* FeatureEngineer.run: kind "ok" is a returned triple, "none" the
\* (None, None, None) return, "raised" an exception of pd.to_datetime
run(place_info, now, lex, client) ==
    LET reviews_list == DictGet(place_info, "reviews", <<>>)
        clean == Normalize(reviews_list)
        df == [i \in DOMAIN clean |->
                 LET text == clean[i].text
                     counts == calculate_f2_keywords_jieba(text, lex)
                 IN  [ rating       |-> clean[i].rating,
                       text         |-> text,
                       datetime_str |-> clean[i].datetime_str,
                       datetime     |-> pd_to_datetime(clean[i].datetime_str),
                       is_negative  |-> clean[i].rating <= 2,
                       high_risk_keyword_count   |-> counts.high_risk_keyword_count,
                       medium_risk_keyword_count |-> counts.medium_risk_keyword_count,
                       low_risk_keyword_count    |-> counts.low_risk_keyword_count,
                       sentiment_score |-> get_sentiment_score(text, client) ]]
        phrases == [i \in DOMAIN df |-> extract_key_phrases(df[i].text, lex)]
        all_positive == Flatten([i \in DOMAIN phrases |-> phrases[i].positive])
        all_negative == Flatten([i \in DOMAIN phrases |-> phrases[i].negative])
        key_phrases == [ positive_points       |-> Take(Dedup(all_positive), 2),
                         key_negative_keywords |-> Take(Dedup(all_negative), 3) ]
        trend_data == calculate_f3_trend(df, place_info, now)
    IN  IF reviews_list = <<>> THEN EmptyRun
        ELSE IF ~HasRequiredCols(reviews_list) THEN NoneRun
        ELSE IF clean = <<>> THEN EmptyRun
        ELSE IF \E i \in DOMAIN clean : pd_to_datetime(clean[i].datetime_str) < 0
        THEN RaisedRun
        ELSE [ kind |-> "ok",
               df |-> df,
               trend_info |->
                   [ historical_avg |-> trend_data.historical_avg,
                     recent_avg     |-> trend_data.recent_avg,
                     trend_score    |-> trend_data.trend_score,
                     total_reviews  |-> DictGet(place_info, "reviewsCount", 0),
                     reviews_distribution |->
                         DictGet(place_info, "reviewsDistribution", EmptyDict) ],
               key_phrases |-> key_phrases ]

(***************************************************************************)
(* app/models.py: LandmineScorer                                           *)
(***************************************************************************)
Hundred == RatInt(100)
Zero == RatInt(0)

\* variant: the cap at 100 is left out
calculate_f1_score_uncapped(reviews_distribution, total_reviews) ==
    IF total_reviews = 0 THEN Zero
    ELSE Rat((3 * DictGet(reviews_distribution, "oneStar", 0)
              + 2 * DictGet(reviews_distribution, "twoStar", 0)) * 100, total_reviews)

calculate_f1_score(reviews_distribution, total_reviews) ==
    IF total_reviews = 0 THEN Zero
    ELSE LET one_star == DictGet(reviews_distribution, "oneStar", 0)
             two_star == DictGet(reviews_distribution, "twoStar", 0)
             \* (one_star * 1.5 + two_star) / total_reviews * 200
             score == Rat((3 * one_star + 2 * two_star) * 100, total_reviews)
         IN  RatMin(score, Hundred)

high_risk_penalty == 15
medium_risk_penalty == 5
low_risk_penalty == 1

calculate_f2_score(df) ==
    IF df = <<>> THEN Zero
    ELSE LET total_reviews == Len(df)
             risk_sum ==
                 SumSeq(Column(df, "high_risk_keyword_count")) * high_risk_penalty
               + SumSeq(Column(df, "medium_risk_keyword_count")) * medium_risk_penalty
               + SumSeq(Column(df, "low_risk_keyword_count")) * low_risk_penalty
             score == Rat(risk_sum * 100, total_reviews)
         IN  RatMin(score, Hundred)

\* trend_score in thousandths
calculate_f3_score(trend_score) ==
    LET score == Rat((IF trend_score > 0 THEN trend_score ELSE 0) * 50, 1000)
    IN  RatMin(score, Hundred)

\* variant: the score is -avg_sentiment * 50, so that neutral reviews score 0
calculate_f5_score_from_zero(df) ==
    IF df = <<>> THEN Zero
    ELSE LET avg_sentiment == Rat(SumSeq(Column(df, "sentiment_score")), 10 * Len(df))
             score == RatScale(RatSub(Zero, avg_sentiment), 50, 1)
         IN  RatMax(Zero, RatMin(score, Hundred))

calculate_f5_score(df) ==
    IF df = <<>> THEN Zero
    ELSE LET avg_sentiment == Rat(SumSeq(Column(df, "sentiment_score")), 10 * Len(df))
             score == RatScale(RatSub(RatInt(1), avg_sentiment), 50, 1)
         IN  RatMax(Zero, RatMin(score, Hundred))

\* the reasons of scores_map, in the order the dict is built
Reasons == << "low_star_reviews", "negative_keywords", "declining_trend",
              "negative_sentiment" >>

MaxScore(scores) ==
    CHOOSE m \in Range(scores) : \A i \in DOMAIN scores : RatLeq(scores[i], m)

\* variant: the reason with the lowest score is named
DominantReason_lowest(scores) ==
    Reasons[CHOOSE i \in DOMAIN scores :
                /\ \A j \in DOMAIN scores : RatLeq(scores[i], scores[j])
                /\ \A j \in DOMAIN scores :
                      (\A k \in DOMAIN scores : RatLeq(scores[j], scores[k])) => i <= j]

\* variant: among the reasons with the top score the last one is named
DominantReason_last(scores) ==
    Reasons[CHOOSE i \in DOMAIN scores :
                /\ scores[i] = MaxScore(scores)
                /\ \A j \in DOMAIN scores : scores[j] = MaxScore(scores) => j <= i]

\* max(scores_map, key=scores_map.get): the first reason with the top score
DominantReason(scores) ==
    Reasons[CHOOSE i \in DOMAIN scores :
                /\ scores[i] = MaxScore(scores)
                /\ \A j \in DOMAIN scores : scores[j] = MaxScore(scores) => i <= j]

SignificantScore == 20
WarningScore == 70

\* variant: the sum is divided by the sum of the weights
WeightedSum_normalised(scores, w) ==
    RatScale(RatAdd(RatAdd(RatScale(scores[1], w.f1_neg_reviews, 100),
                           RatScale(scores[2], w.f2_keywords, 100)),
                    RatAdd(RatScale(scores[3], w.f3_trend, 100),
                           RatScale(scores[4], w.f5_sentiment, 100))),
             100,
             w.f1_neg_reviews + w.f2_keywords + w.f3_trend + w.f5_sentiment)

WeightedSum(scores, w) ==
    RatAdd(RatAdd(RatScale(scores[1], w.f1_neg_reviews, 100),
                  RatScale(scores[2], w.f2_keywords, 100)),
           RatAdd(RatScale(scores[3], w.f3_trend, 100),
                  RatScale(scores[4], w.f5_sentiment, 100)))

\* variant: the final score is not clamped
ClampFinal_unclamped(final_score) == final_score

ClampFinal(final_score) == RatMax(Zero, RatMin(final_score, Hundred))

\* kind "returned": the (final_score, summary) pair; kind "raised": the read
\* of dominant_risk_reason when no branch bound it.  scores are the four
\* sub-scores (f1, f2, f3, f5) the method prints before the summary.
calculate_score(processed_df, trend_info, w) ==
    LET f1_score == calculate_f1_score(DictGet(trend_info, "reviews_distribution", EmptyDict),
                                       DictGet(trend_info, "total_reviews", 0))
        f2_score == calculate_f2_score(processed_df)
        f3_score == calculate_f3_score(DictGet(trend_info, "trend_score", 0))
        f5_score == calculate_f5_score(processed_df)
        scores == << f1_score, f2_score, f3_score, f5_score >>
        significant == RatLess(RatInt(SignificantScore), MaxScore(scores))
        final_score == ClampFinal(WeightedSum(scores, w))
        high == RatLess(RatInt(WarningScore), final_score)
    IN  IF high /\ ~significant
        THEN [ kind |-> "raised", scores |-> scores, final_score |-> final_score,
               summary |-> [kind |-> "unbound", reason |-> "unbound"] ]
        ELSE [ kind |-> "returned", scores |-> scores, final_score |-> final_score,
               summary |->
                   IF high THEN [kind |-> "warning", reason |-> DominantReason(scores)]
                   ELSE IF significant
                   THEN [kind |-> "reason", reason |-> DominantReason(scores)]
                   ELSE [kind |-> "low", reason |-> "none"] ]

(***************************************************************************)
(* app/main.py: analyze_place, from the call of engineer.run on            *)
(***************************************************************************)
MediumScore == 40

\* variant: the thresholds are inclusive
RiskLevel_inclusive(score) ==
    IF RatLeq(RatInt(WarningScore), score) THEN "high"
    ELSE IF RatLeq(RatInt(MediumScore), score) THEN "medium"
    ELSE "low"

RiskLevel(score) ==
    IF RatLess(RatInt(WarningScore), score) THEN "high"
    ELSE IF RatLess(RatInt(MediumScore), score) THEN "medium"
    ELSE "low"

AnalyzeResponse(score, summary, key_phrases, trend_info) ==
    [ status                |-> "ok",
      score                 |-> score,
      landmine_score        |-> Round(score, 100),
      risk_level            |-> RiskLevel(score),
      summary               |-> summary,
      key_negative_keywords |-> DictGet(key_phrases, "key_negative_keywords", <<>>),
      positive_points       |-> DictGet(key_phrases, "positive_points", <<>>),
      details               |-> trend_info ]

\* a failed request: "http500" is the HTTPException raised when run returns
\* None, "exception" an exception that analyze_place does not catch
Failure(status) ==
    [ status |-> status, score |-> Zero, landmine_score |-> 0, risk_level |-> "none",
      summary |-> [kind |-> "none", reason |-> "none"],
      key_negative_keywords |-> <<>>, positive_points |-> <<>>, details |-> EmptyDict ]

NoResponse == Failure("pending")
NoRun == [kind |-> "pending", df |-> <<>>, trend_info |-> EmptyDict,
          key_phrases |-> EmptyDict]
NoScore == [kind |-> "pending", scores |-> << Zero, Zero, Zero, Zero >>,
            final_score |-> Zero, summary |-> [kind |-> "none", reason |-> "none"]]
NoFirst == [set |-> FALSE, response |-> NoResponse, time |-> 0,
            config |-> <<>>, input |-> EmptyDict]

(***************************************************************************)
(* State.                                                                  *)
(***************************************************************************)
VARIABLES
    weights,                 \* LandmineScorer.weights
    keywords_path,           \* what FeatureEngineer.__init__ found at its path
    lexicon,                 \* the keyword sets of the FeatureEngineer
    text_analytics_client,   \* "None" or "client" (app/sentiment.py)
    now,                     \* the clock, in days
    pc,                      \* position of the request in analyze_place
    place_info,              \* the venue record with its reviews
    run_out,                 \* what engineer.run returned
    analysis_time,           \* the clock value engineer.run read
    score_out,               \* what scorer.calculate_score returned
    response,                \* the answer of analyze_place
    first,                   \* the answer to the same input one run earlier
    place_id,                \* request.place_id
    places_collection,       \* the cached venue documents, by _id
    reviews_collection,      \* the cached review documents, in insertion order
    history                  \* per place: what the request that inserted it
                             \* scraped, and what it answered

vars == << weights, keywords_path, lexicon, text_analytics_client, now, pc, place_info, run_out,
           analysis_time, score_out, response, first, place_id, places_collection,
           reviews_collection, history >>

store == << places_collection, reviews_collection, history >>

config == << weights, keywords_path, lexicon, text_analytics_client >>

Init ==
    /\ weights \in WeightConfigs
    /\ keywords_path \in LexiconSources
    /\ lexicon = FeatureEngineerInit(keywords_path)
    /\ text_analytics_client \in { "None", "client" }
    /\ now = 100
    /\ pc = "idle"
    /\ place_info = EmptyDict
    /\ run_out = NoRun
    /\ analysis_time = 0
    /\ score_out = NoScore
    /\ response = NoResponse
    /\ first = NoFirst
    /\ place_id = "none"
    /\ places_collection = EmptyDict
    /\ reviews_collection = <<>>
    /\ history = EmptyDict

\* a request arrives and analyze_place has the venue record in hand; main.py
\* constructs the engineer when it is imported, so there is no handler to
\* call when the constructor raised
Analyze ==
    /\ pc = "idle"
    /\ ~lexicon.raised
    /\ \E info \in PlaceInfos : place_info' = info
    /\ pc' = "run"
    /\ run_out' = NoRun
    /\ score_out' = NoScore
    /\ response' = NoResponse
    /\ first' = NoFirst
    /\ UNCHANGED << config, store, place_id, now, analysis_time >>

\* the caller repeats the request on the identical input
Rerun ==
    /\ pc = "done"
    /\ ~first.set
    /\ first' = [set |-> TRUE, response |-> response, time |-> analysis_time,
                 config |-> config, input |-> place_info]
    /\ pc' = "run"
    /\ run_out' = NoRun
    /\ score_out' = NoScore
    /\ response' = NoResponse
    /\ UNCHANGED << config, store, place_id, now, place_info, analysis_time >>

\* engineer.run(place_info) and the check of its result
EngineerRun ==
    /\ pc = "run"
    /\ run_out' = run(place_info, now, lexicon, text_analytics_client)
    /\ analysis_time' = now
    /\ IF run_out'.kind = "ok"
       THEN pc' = "score" /\ UNCHANGED response
       ELSE /\ pc' = "done"
            /\ response' = Failure(IF run_out'.kind = "none" THEN "http500"
                                   ELSE "exception")
    /\ UNCHANGED << config, store, place_id, now, place_info, score_out, first >>

\* variant: the scorer falls back to the default weights after a call
CalculateScore_resets_weights ==
    /\ pc = "score"
    /\ score_out' = calculate_score(run_out.df, run_out.trend_info, weights)
    /\ weights' = DefaultWeights
    /\ IF score_out'.kind = "returned"
       THEN pc' = "respond" /\ UNCHANGED response
       ELSE pc' = "done" /\ response' = Failure("exception")
    /\ UNCHANGED << keywords_path, lexicon, text_analytics_client, now, place_info,
                    run_out, analysis_time, first, store, place_id >>

\* scorer.calculate_score(processed_df, trend_info)
CalculateScore ==
    /\ pc = "score"
    /\ score_out' = calculate_score(run_out.df, run_out.trend_info, weights)
    /\ IF score_out'.kind = "returned"
       THEN pc' = "respond" /\ UNCHANGED response
       ELSE pc' = "done" /\ response' = Failure("exception")
    /\ UNCHANGED << config, store, place_id, now, place_info, run_out, analysis_time, first >>

\* the risk tier and the response
Respond ==
    /\ pc = "respond"
    /\ response' = AnalyzeResponse(score_out.final_score, score_out.summary,
                                   run_out.key_phrases, run_out.trend_info)
    /\ pc' = "done"
    /\ UNCHANGED << config, store, place_id, now, place_info, run_out, analysis_time, score_out, first >>

\* the caller has its answer; the instance waits for the next request
Return ==
    /\ pc = "done"
    /\ pc' = "idle"
    /\ place_info' = EmptyDict
    /\ run_out' = NoRun
    /\ analysis_time' = 0
    /\ score_out' = NoScore
    /\ response' = NoResponse
    /\ first' = NoFirst
    /\ UNCHANGED << config, store, place_id, now >>

\* time passes; the clock is read by engineer.run only, so the model
\* advances it between the runs
Tick ==
    /\ pc \in { "idle", "done" }
    /\ now < MaxNow
    /\ now' = now + 30
    /\ UNCHANGED << config, store, place_id, pc, place_info, run_out, analysis_time, score_out,
                    response, first >>

Next ==
    Analyze \/ Rerun \/ EngineerRun \/ CalculateScore \/ Respond \/ Return \/ Tick

Spec == Init /\ [][Next]_vars

TypeOK ==
    /\ pc \in { "idle", "run", "score", "respond", "done" }
    /\ weights \in WeightConfigs
    /\ now \in 100..(MaxNow + 30)

(***************************************************************************)
(* app/main.py: analyze_place, the cache of venues and reviews.  The two   *)
(* collections exist (analyze_place answers 503 before any read when the   *)
(* connection failed at import) and requests are served one at a time.     *)
(***************************************************************************)
PlaceIds == { "place_a", "place_b" }

\* the first item of the dataset that the scraper downloads for a place
ApifyItem(id) ==
    IF id = "place_a"
    THEN [ reviewsCount |-> 10, reviewsDistribution |-> [oneStar |-> 1],
           totalScore |-> 30,
           reviews |->
               << [stars |-> 1, text |-> TQuota, publishedAtDate |-> DayRecent],
                  [stars |-> 5, text |-> TGood, publishedAtDate |-> DayRecent] >>
               \o Rep([stars |-> 1, text |-> TPlain, publishedAtDate |-> DayRecent], 4) ]
    ELSE [ reviewsCount |-> 0 ]

\* _run_apify_actor_and_get_data: it raises, or returns an empty dataset,
\* or returns the dataset of the place
run_apify_actor_and_get_data(id) ==
    { [raised |-> TRUE, data |-> <<>>],
      [raised |-> FALSE, data |-> <<>>],
      [raised |-> FALSE, data |-> << ApifyItem(id) >>] }

\* reviews_collection.find({"place_id": place_id}), in insertion order
find(collection, id) == SelectSeq(collection, LAMBDA document : document.place_id = id)

\* a document without the fields that the store adds
Scraped(document) ==
    [k \in DOMAIN document \ { "_id", "place_id", "reviews" } |-> document[k]]

NoHistory == [item |-> EmptyDict, answered |-> FALSE, time |-> 0, response |-> NoResponse]

\* a request for a place arrives
Request ==
    /\ pc = "idle"
    /\ ~lexicon.raised
    /\ \E id \in PlaceIds : place_id' = id
    /\ pc' = "lookup"
    /\ UNCHANGED << config, store, now, place_info, run_out, analysis_time, score_out,
                    response, first >>

\* find_one finds the venue: the stored reviews are attached to it
CacheHit ==
    /\ pc = "lookup"
    /\ place_id \in DOMAIN places_collection
    /\ place_info' = ("reviews" :> find(reviews_collection, place_id))
                         @@ places_collection[place_id]
    /\ pc' = "run"
    /\ UNCHANGED << config, store, now, place_id, run_out, analysis_time, score_out,
                    response, first >>

\* find_one finds nothing: the scraper runs
Scrape ==
    /\ pc = "lookup"
    /\ place_id \notin DOMAIN places_collection
    /\ \E apify \in run_apify_actor_and_get_data(place_id) :
          IF apify.raised \/ apify.data = <<>>
          THEN pc' = "done" /\ response' = Failure("http500") /\ UNCHANGED place_info
          ELSE pc' = "insert_place" /\ place_info' = apify.data[1] /\ UNCHANGED response
    /\ UNCHANGED << config, store, now, place_id, run_out, analysis_time, score_out,
                    first >>

\* places_collection.insert_one(place_to_insert), which may raise
InsertPlace ==
    /\ pc = "insert_place"
    /\ \E inserted \in BOOLEAN :
          IF inserted
          THEN /\ places_collection' =
                     (place_id :> (("_id" :> place_id) @@ Scraped(place_info)))
                        @@ places_collection
               /\ history' = (place_id :> [NoHistory EXCEPT !.item = place_info])
                                 @@ history
               /\ pc' = "insert_reviews"
               /\ UNCHANGED response
          ELSE /\ pc' = "done"
               /\ response' = Failure("http500")
               /\ UNCHANGED << places_collection, history >>
    /\ UNCHANGED << config, reviews_collection, now, place_id, place_info, run_out,
                    analysis_time, score_out, first >>

\* the loop that sets review["place_id"] and reviews_collection.insert_many,
\* which writes the documents in order and raises at the first it cannot
\* write
InsertReviews ==
    /\ pc = "insert_reviews"
    /\ LET reviews_list == DictGet(place_info, "reviews", <<>>)
           documents == [i \in DOMAIN reviews_list |->
                           ("place_id" :> place_id)
                           @@ ("_id" :> Len(reviews_collection) + i)
                           @@ reviews_list[i]]
       IN  IF reviews_list = <<>>
           THEN pc' = "run" /\ UNCHANGED << reviews_collection, place_info, response >>
           ELSE \E written \in 0..Len(documents) :
                   /\ reviews_collection' =
                          reviews_collection \o SubSeq(documents, 1, written)
                   /\ IF written = Len(documents)
                      THEN /\ place_info' = ("reviews" :> documents) @@ place_info
                           /\ pc' = "run"
                           /\ UNCHANGED response
                      ELSE /\ pc' = "done"
                           /\ response' = Failure("http500")
                           /\ UNCHANGED place_info
    /\ UNCHANGED << config, places_collection, history, now, place_id, run_out,
                    analysis_time, score_out, first >>

\* the request that found no cached venue
Missed == place_info # EmptyDict /\ "_id" \notin DOMAIN place_info

\* the caller has its answer; the answer of the request that filled the
\* cache is kept for comparison
Reply ==
    /\ pc = "done"
    /\ pc' = "idle"
    /\ history' = IF Missed /\ run_out.kind # "pending"
                  THEN [history EXCEPT ![place_id] =
                          [@ EXCEPT !.answered = TRUE, !.time = analysis_time,
                                    !.response = response]]
                  ELSE history
    /\ place_id' = "none"
    /\ place_info' = EmptyDict
    /\ run_out' = NoRun
    /\ analysis_time' = 0
    /\ score_out' = NoScore
    /\ response' = NoResponse
    /\ UNCHANGED << config, places_collection, reviews_collection, now, first >>

InitCache ==
    /\ weights = DefaultWeights
    /\ keywords_path = "file"
    /\ lexicon = FeatureEngineerInit(keywords_path)
    /\ text_analytics_client = "client"
    /\ now = 100
    /\ pc = "idle"
    /\ place_info = EmptyDict
    /\ run_out = NoRun
    /\ analysis_time = 0
    /\ score_out = NoScore
    /\ response = NoResponse
    /\ first = NoFirst
    /\ place_id = "none"
    /\ places_collection = EmptyDict
    /\ reviews_collection = <<>>
    /\ history = EmptyDict

NextCache ==
    \/ Request \/ CacheHit \/ Scrape \/ InsertPlace \/ InsertReviews
    \/ EngineerRun \/ CalculateScore \/ Respond \/ Reply \/ Tick

SpecCache == InitCache /\ [][NextCache]_vars

(***************************************************************************)
(* Properties.                                                             *)
(***************************************************************************)
InRange(x) == RatLeq(Zero, x) /\ RatLeq(x, Hundred)

reviews == DictGet(place_info, "reviews", <<>>)
Complete(review) == RequiredCols \subseteq DOMAIN review
BlankText(text) == \A k \in DOMAIN text : text[k] = Blank
Scored == score_out.kind \in { "returned", "raised" }

\* C1: whatever the weights (negative, above 1, not normalised), the final
\* score that calculate_score returns lies in [0, 100].
C1_FinalScoreInRange ==
    score_out.kind = "returned" => InRange(score_out.final_score)

\* a returned score whose weighted sum exceeded 100 under non-default weights
C1_Witness ==
    /\ score_out.kind = "returned"
    /\ weights # DefaultWeights
    /\ RatLess(Hundred, WeightedSum(score_out.scores, weights))

\* C2: each of the sub-scores F1, F2, F3, F5 lies in [0, 100]; all four are
\* 0 when the table of reviews is empty, and F1 is 0 when the declared
\* count of reviews is 0.
C2_SubScoresInRange ==
    Scored =>
        /\ \A i \in 1..4 : InRange(score_out.scores[i])
        /\ run_out.df = <<>> => \A i \in 1..4 : score_out.scores[i] = Zero
        /\ DictGet(run_out.trend_info, "total_reviews", 0) = 0 =>
              score_out.scores[1] = Zero

\* F1 computed from a declared distribution whose uncapped value is 280
C2_Witness ==
    /\ Scored
    /\ DictGet(run_out.trend_info, "total_reviews", 0) = 10
    /\ DictGet(DictGet(run_out.trend_info, "reviews_distribution", EmptyDict),
               "oneStar", 0) = 8
    /\ score_out.scores[1] = Hundred

\* Scenario A: ten complete reviews, all rated 5, with no lexicon word and
\* sentiment 0, no declared low-star review, no declared rating above the
\* reviews' own, default weights
ScenarioA ==
    /\ pc = "done"
    /\ weights = DefaultWeights
    /\ Len(reviews) = 10
    /\ \A i \in DOMAIN reviews :
          /\ Complete(reviews[i])
          /\ reviews[i].stars = 5
          /\ reviews[i].text = TPlain
          /\ pd_to_datetime(reviews[i].publishedAtDate) >= 0
    /\ DictGet(DictGet(place_info, "reviewsDistribution", EmptyDict), "oneStar", 0) = 0
    /\ DictGet(DictGet(place_info, "reviewsDistribution", EmptyDict), "twoStar", 0) = 0
    /\ DictGet(place_info, "totalScore", 50) <= 50

\* C3 as stated: Scenario A yields final_score = 0, tier low and the
\* low-risk summary.
C3_ScenarioA_AsStated ==
    ScenarioA =>
        /\ response.status = "ok"
        /\ response.score = Zero
        /\ response.risk_level = "low"
        /\ response.summary.kind = "low"

\* C3 amended: Scenario A yields F5 = 50, final_score = 7.5, tier low and
\* the summary that names the negative sentiment as the main risk.
C3_ScenarioA ==
    ScenarioA =>
        /\ response.status = "ok"
        /\ score_out.scores = << Zero, Zero, Zero, RatInt(50) >>
        /\ response.score = Rat(15, 2)
        /\ response.landmine_score = 750
        /\ response.risk_level = "low"
        /\ response.summary = [kind |-> "reason", reason |-> "negative_sentiment"]

C3_Witness == ScenarioA /\ response.status = "ok"

SomeMissing == \E i \in DOMAIN reviews : ~Complete(reviews[i])

\* C4 as stated: when one raw review lacks a required field, the batch is
\* rejected: run never returns a table computed from the other reviews.
C4_BatchRejected_AsStated ==
    SomeMissing => ~(run_out.kind = "ok" /\ run_out.df # <<>>)

\* C4 amended: run returns None, and analyze_place answers with its HTTP 500,
\* exactly when the list is not empty and some required field is absent from
\* every review; otherwise a review that lacks a field is dropped and the
\* table holds the complete reviews with a non-blank text.
C4_BatchRejected ==
    run_out.kind # "pending" =>
        /\ run_out.kind = "none" <=>
              /\ reviews # <<>>
              /\ \E col \in RequiredCols :
                    \A i \in DOMAIN reviews : col \notin DOMAIN reviews[i]
        /\ (run_out.kind = "none" /\ pc = "done") => response.status = "http500"
        /\ run_out.kind = "ok" =>
              Len(run_out.df) =
                  Cardinality({ i \in DOMAIN reviews :
                                  Complete(reviews[i]) /\ ~BlankText(reviews[i].text) })

\* a result computed from the other reviews of a batch with one review
\* that lacks a field
C4_Witness ==
    /\ pc = "done"
    /\ response.status = "ok"
    /\ Len(reviews) > 1
    /\ ~Complete(reviews[1])
    /\ Len(run_out.df) = Len(reviews) - 1

\* C5: calculate_score never raises, and a final score above 70 comes with
\* the warning that names the reason of the highest sub-score.
C5_DominantReasonDefined ==
    /\ score_out.kind # "raised"
    /\ (score_out.kind = "returned" /\ RatLess(RatInt(70), score_out.final_score)) =>
          /\ score_out.summary.kind = "warning"
          /\ \E i \in 1..4 :
                /\ score_out.summary.reason = Reasons[i]
                /\ \A j \in 1..4 : RatLeq(score_out.scores[j], score_out.scores[i])

negative_keywords == DictGet(run_out.key_phrases, "key_negative_keywords", <<>>)
positive_points == DictGet(run_out.key_phrases, "positive_points", <<>>)

\* C6: the key phrases that run returns hold at most 3 negative and at most
\* 2 positive sentences, and no sentence is in both lists.
C6_PhraseQuotas ==
    run_out.kind = "ok" =>
        /\ Len(negative_keywords) <= 3
        /\ Len(positive_points) <= 2
        /\ Range(negative_keywords) \cap Range(positive_points) = {}

\* C7: a sentence with a negative keyword and a positive keyword is never
\* put in the positive list.
C7_NegativePriority ==
    run_out.kind = "ok" =>
        \A i \in DOMAIN positive_points :
            ~(\E keyword \in lexicon.all_negative_set :
                  keyword \in Range(positive_points[i]))

\* the list of raw reviews is empty, or every required field occurs in it
\* and no review has all of them together with a non-blank text
NothingToAnalyse ==
    \/ reviews = <<>>
    \/ /\ \A col \in RequiredCols : \E i \in DOMAIN reviews : col \in DOMAIN reviews[i]
       /\ \A i \in DOMAIN reviews : Complete(reviews[i]) => BlankText(reviews[i].text)

\* C8: with no review left to analyse the request does not fail: the score
\* is 0 and the summary is the low-risk text, whatever the venue metadata.
C8_EmptyInputNeutral ==
    (pc = "done" /\ NothingToAnalyse) =>
        /\ response.status = "ok"
        /\ response.score = Zero
        /\ response.landmine_score = 0
        /\ response.risk_level = "low"
        /\ response.summary = [kind |-> "low", reason |-> "none"]

\* reviews with blank texts only, under metadata that declares 8 one-star
\* reviews out of 10
C8_Witness ==
    /\ pc = "done"
    /\ response.status = "ok"
    /\ reviews # <<>>
    /\ \A i \in DOMAIN reviews : Complete(reviews[i]) /\ BlankText(reviews[i].text)
    /\ DictGet(place_info, "reviewsCount", 0) = 10
    /\ DictGet(DictGet(place_info, "reviewsDistribution", EmptyDict), "oneStar", 0) = 8

SameResult(a, b) ==
    /\ a.status = b.status
    /\ a.score = b.score
    /\ a.summary = b.summary
    /\ a.risk_level = b.risk_level

\* C9 as stated: a second run on the identical input returns the same
\* (final_score, summary) as the first.
C9_Idempotent_AsStated ==
    (pc = "done" /\ first.set) => SameResult(first.response, response)

\* C9 amended: a run changes nothing of the engineer, the scorer, the
\* lexicon or the input, and a second run on the identical input that reads
\* the same analysis time returns the same result as the first.
C9_Idempotent ==
    first.set =>
        /\ first.config = config
        /\ first.input = place_info
        /\ (pc = "done" /\ first.time = analysis_time) =>
              SameResult(first.response, response)

\* a second run at the time of the first, on reviews whose trend counts
\* and under weights that are not the default ones
C9_Witness ==
    /\ pc = "done"
    /\ first.set
    /\ first.time = analysis_time
    /\ response.status = "ok"
    /\ weights # DefaultWeights
    /\ DictGet(run_out.trend_info, "trend_score", 0) > 0

\* C10: the tier is low for a score of at most 40, medium for a score above
\* 40 and at most 70, high for a score above 70.
C10_RiskTier ==
    response.status = "ok" =>
        /\ RatLeq(response.score, RatInt(40)) => response.risk_level = "low"
        /\ (RatLess(RatInt(40), response.score) /\ RatLeq(response.score, RatInt(70)))
              => response.risk_level = "medium"
        /\ RatLess(RatInt(70), response.score) => response.risk_level = "high"

\* a score of exactly 70
C10_Witness ==
    /\ response.status = "ok"
    /\ response.score = RatInt(70)
    /\ response.risk_level = "medium"

\* C11: when the keyword file is missing or malformed, constructing the
\* engineer does not fail: its four keyword sets are empty, every review of a
\* later run has all three keyword counts equal to 0 and no key phrase is
\* produced.
KeywordCounts(row) ==
    << row.high_risk_keyword_count, row.medium_risk_keyword_count,
       row.low_risk_keyword_count >>

C11_LexiconNeverFails ==
    keywords_path # "file" =>
        /\ ~lexicon.raised
        /\ lexicon.all_negative_set = {} /\ lexicon.positive_set = {}
        /\ run_out.kind = "ok" =>
              /\ \A i \in 1..Len(run_out.df) :
                     KeywordCounts(run_out.df[i]) = << 0, 0, 0 >>
              /\ run_out.df # <<>> =>
                     negative_keywords = <<>> /\ positive_points = <<>>

\* C12: get_sentiment_score never raises and returns a value in [-1, 1]; it
\* returns exactly 0 when the client is not configured, when the service
\* reports an error for the document and when the call raises.  A failed
\* call for one review never aborts the batch: every complete review with a
\* text and a readable date still has its row.
CallFails(text) == AzureAnalyze(text).raises \/ AzureAnalyze(text).is_error

Analysable(review) ==
    /\ Complete(review)
    /\ ~BlankText(review.text)
    /\ pd_to_datetime(review.publishedAtDate) >= 0

C12_SentimentNeverFails ==
    /\ run_out.kind = "ok" =>
          \A i \in 1..Len(run_out.df) :
             LET row == run_out.df[i]
             IN  /\ row.sentiment_score \in (0 - 10)..10
                 /\ text_analytics_client = "None" => row.sentiment_score = 0
                 /\ CallFails(row.text) => row.sentiment_score = 0
    /\ ( /\ run_out.kind # "pending"
         /\ reviews # <<>>
         /\ \A i \in DOMAIN reviews : Analysable(reviews[i]) ) =>
          /\ run_out.kind = "ok"
          /\ Len(run_out.df) = Len(reviews)

\* a batch of ten rows with a configured client: the call raises for the
\* first review and answers with a negative label for the other nine
C12_Witness ==
    /\ run_out.kind = "ok"
    /\ text_analytics_client = "client"
    /\ Len(run_out.df) = 10
    /\ AzureAnalyze(run_out.df[1].text).raises
    /\ run_out.df[1].sentiment_score = 0
    /\ run_out.df[2].sentiment_score = 0 - 10

\* a row whose document the service answered with an error
C12_WitnessErrorDocument ==
    /\ run_out.kind = "ok"
    /\ text_analytics_client = "client"
    /\ \E i \in 1..Len(run_out.df) :
          AzureAnalyze(run_out.df[i].text).is_error /\ run_out.df[i].sentiment_score = 0

\* C13: Scenario B: with a declared count of 10 and a declared distribution
\* of 8 one-star and 2 two-star reviews, F1 = 100; with the default weights
\* and the other three sub-scores at 0 the final score is 25 and the tier is
\* low.  In general F1 is a function of the declared distribution and count
\* alone, and the final score is the weighted sum of the four sub-scores,
\* not normalised, clamped to [0, 100].
declared_count == DictGet(run_out.trend_info, "total_reviews", 0)
declared_distribution == DictGet(run_out.trend_info, "reviews_distribution", EmptyDict)
declared_low_stars ==
    3 * DictGet(declared_distribution, "oneStar", 0)
    + 2 * DictGet(declared_distribution, "twoStar", 0)

ScenarioB ==
    /\ Scored
    /\ declared_count = 10
    /\ DictGet(declared_distribution, "oneStar", 0) = 8
    /\ DictGet(declared_distribution, "twoStar", 0) = 2

PlainSum ==
    LET term(i, weight) == Rat(score_out.scores[i][1] * weight,
                               score_out.scores[i][2] * 100)
    IN  RatAdd(RatAdd(RatAdd(term(1, weights.f1_neg_reviews),
                             term(2, weights.f2_keywords)),
                      term(3, weights.f3_trend)),
               term(4, weights.f5_sentiment))

C13_ScenarioB ==
    /\ Scored =>
          /\ score_out.scores[1] =
                IF declared_count = 0 THEN Zero
                ELSE IF declared_low_stars * 100 >= 100 * declared_count THEN Hundred
                ELSE Rat(declared_low_stars * 100, declared_count)
          /\ run_out.df # <<>> =>
                /\ declared_count = DictGet(place_info, "reviewsCount", 0)
                /\ declared_distribution =
                      DictGet(place_info, "reviewsDistribution", EmptyDict)
    /\ score_out.kind = "returned" =>
          score_out.final_score =
              IF PlainSum[1] < 0 THEN Zero
              ELSE IF PlainSum[1] > 100 * PlainSum[2] THEN Hundred
              ELSE Rat(PlainSum[1], PlainSum[2])
    /\ ScenarioB =>
          /\ score_out.scores[1] = Hundred
          /\ ( /\ weights = DefaultWeights
               /\ score_out.scores[2] = Zero
               /\ score_out.scores[3] = Zero
               /\ score_out.scores[4] = Zero ) =>
                /\ score_out.kind = "returned"
                /\ score_out.final_score = RatInt(25)
                /\ pc = "done" =>
                      /\ response.landmine_score = 2500
                      /\ response.risk_level = "low"

\* Scenario B answered under the default weights with only F1 above 0
C13_Witness ==
    /\ ScenarioB
    /\ pc = "done"
    /\ response.status = "ok"
    /\ weights = DefaultWeights
    /\ score_out.scores = << Hundred, Zero, Zero, Zero >>

\* The sequential algorithm of the specification on a list of sentences:
\* a sentence is claimed negative while fewer than 3 negative phrases are
\* counted, else it is tested for positive while fewer than 2 are counted.
RECURSIVE SequentialQuota(_, _, _, _)
SequentialQuota(sentences, negative, positive, lex) ==
    IF sentences = <<>> THEN [negative |-> negative, positive |-> positive]
    ELSE LET sentence == Head(sentences)
             claimed == Len(negative) < 3 /\ HasKeyword(sentence, lex.all_negative_set)
             praised == Len(positive) < 2 /\ HasKeyword(sentence, lex.positive_set)
         IN  IF claimed
             THEN SequentialQuota(Tail(sentences), Append(negative, sentence), positive, lex)
             ELSE IF praised
             THEN SequentialQuota(Tail(sentences), negative, Append(positive, sentence), lex)
             ELSE SequentialQuota(Tail(sentences), negative, positive, lex)

\* the trimmed, non-empty sentences of a text
Sentences(text) ==
    LET parts == re_split(text)
    IN  SelectSeq([k \in DOMAIN parts |-> strip(parts[k])],
                  LAMBDA sentence : sentence # <<>>)

Merge(positive, negative) ==
    [ positive_points       |-> Take(Dedup(positive), 2),
      key_negative_keywords |-> Take(Dedup(negative), 3) ]

\* counts that run across all the reviews of the batch
GlobalQuotaPhrases(texts, lex) ==
    LET found == SequentialQuota(Flatten([i \in DOMAIN texts |-> Sentences(texts[i])]),
                                 <<>>, <<>>, lex)
    IN  Merge(found.positive, found.negative)

\* counts that restart at each review
PerReviewQuotaPhrases(texts, lex) ==
    LET found == [i \in DOMAIN texts |->
                    SequentialQuota(Sentences(texts[i]), <<>>, <<>>, lex)]
    IN  Merge(Flatten([i \in DOMAIN texts |-> found[i].positive]),
              Flatten([i \in DOMAIN texts |-> found[i].negative]))

texts == Column(run_out.df, "text")

\* no sentence with a keyword occurs twice in the batch, and no sentence
\* holds both a negative and a positive keyword
PlainBatch ==
    LET batch_sentences == Flatten([i \in DOMAIN texts |-> Sentences(texts[i])])
        negative == SelectSeq(batch_sentences,
                              LAMBDA s : HasKeyword(s, lexicon.all_negative_set))
        positive == SelectSeq(batch_sentences,
                              LAMBDA s : HasKeyword(s, lexicon.positive_set))
    IN  /\ Cardinality(Range(negative)) = Len(negative)
        /\ Cardinality(Range(positive)) = Len(positive)
        /\ Range(negative) \cap Range(positive) = {}

\* the key phrases that run hands to the response are those of the record
SamePhrases(key_phrases) ==
    LET expected == key_phrases
    IN  /\ negative_keywords = expected.key_negative_keywords
        /\ positive_points = expected.positive_points

\* C14 as stated: when run has returned, its key phrases equal, for every batch and every
\* lexicon, those of the sequential algorithm whose counts of 3 negative and
\* 2 positive phrases run across all the reviews, followed by the same
\* dedup and cap.
C14_GlobalQuota_AsStated ==
    (pc = "score" /\ run_out.kind = "ok") => SamePhrases(GlobalQuotaPhrases(texts, lexicon))

\* C14 amended: when run has returned, its key phrases equal those of the sequential
\* algorithm whose counts restart at each review, followed by the same
\* dedup and cap; they equal those of the algorithm with counts across all
\* the reviews whenever no sentence with a keyword occurs twice in the batch
\* and no sentence holds both a negative and a positive keyword.
C14_PerReviewQuota ==
    (pc = "score" /\ run_out.kind = "ok") =>
        /\ SamePhrases(PerReviewQuotaPhrases(texts, lexicon))
        /\ PlainBatch => SamePhrases(GlobalQuotaPhrases(texts, lexicon))

\* two reviews with keywords, no sentence repeated or of both kinds, and
\* more negative sentences in the batch than the quota of 3
C14_Witness ==
    /\ pc = "score"
    /\ run_out.kind = "ok"
    /\ Len(texts) = 2
    /\ texts[1] # texts[2]
    /\ PlainBatch
    /\ Len(negative_keywords) = 3
    /\ Len(positive_points) = 2

\* a batch on which the two ways of counting differ
C14_WitnessDiffer ==
    /\ run_out.kind = "ok"
    /\ ~SamePhrases(GlobalQuotaPhrases(texts, lexicon))

\* C15: when the largest of the four sub-scores is above 20, the summary
\* names exactly one reason and that reason has the largest sub-score; when
\* the largest is at most 20 (20 included) and the final score is at most
\* 70, the summary is the low-risk text; the low-risk text is never returned
\* when some sub-score is above 20.
Above20(score) == RatLess(RatInt(20), score)
NamesReason == score_out.summary.kind \in { "reason", "warning" }

C15_SummarySelection ==
    Scored =>
        /\ (\E i \in 1..4 : Above20(score_out.scores[i])) =>
              /\ score_out.kind = "returned"
              /\ NamesReason
              /\ \E i \in 1..4 :
                    /\ score_out.summary.reason = Reasons[i]
                    /\ \A j \in 1..4 : RatLeq(score_out.scores[j], score_out.scores[i])
        /\ ( /\ \A i \in 1..4 : ~Above20(score_out.scores[i])
             /\ RatLeq(score_out.final_score, RatInt(70)) ) =>
              /\ score_out.kind = "returned"
              /\ score_out.summary = [kind |-> "low", reason |-> "none"]
        /\ score_out.summary.kind = "low" =>
              \A i \in 1..4 : ~Above20(score_out.scores[i])

\* the largest sub-score is exactly 20 and the summary is the low-risk text
C15_Witness ==
    /\ score_out.kind = "returned"
    /\ \E i \in 1..4 : score_out.scores[i] = RatInt(20)
    /\ \A i \in 1..4 : ~Above20(score_out.scores[i])
    /\ score_out.summary.kind = "low"

\* sub-scores that differ, the largest above 20, and a reason named
C15_WitnessReason ==
    /\ score_out.kind = "returned"
    /\ NamesReason
    /\ \E i, j \in 1..4 :
          /\ Above20(score_out.scores[i])
          /\ RatLess(Zero, score_out.scores[j])
          /\ RatLess(score_out.scores[j], score_out.scores[i])

\* C16: when more than 5 reviews were published within the 90 days before
\* the analysis, recent_avg is the mean rating of those reviews and
\* trend_score is the historical average minus that mean; with 5 or fewer,
\* recent_avg is "N/A" and trend_score is 0.  The historical average is
\* the declared aggregate rating when the venue has one, else the mean
\* rating of the rows.  F3 is 0 whenever at most 5 reviews are recent or the
\* recent mean is not below the historical average.
recent_rows ==
    { i \in DOMAIN run_out.df : analysis_time - run_out.df[i].datetime <= 90 }
recent_sum ==
    SumSeq([i \in DOMAIN run_out.df |->
              IF i \in recent_rows THEN run_out.df[i].rating ELSE 0])
historical ==
    IF "totalScore" \in DOMAIN place_info
    THEN Rat(place_info["totalScore"], 10)
    ELSE Rat(SumSeq([i \in DOMAIN run_out.df |-> run_out.df[i].rating]),
             Len(run_out.df))

C16_WitnessTooFew ==
    /\ Scored
    /\ run_out.df # <<>>
    /\ Cardinality(recent_rows) = 5
    /\ recent_sum * historical[2] < historical[1] * 5
    /\ run_out.trend_info.recent_avg = <<>>

\* C17: a timestamp that cannot be parsed, on any one review, is handled
\* like a missing required field: run ends in the batch-rejected outcome
\* (its None return, answered with the HTTP 500 of analyze_place), never in
\* a partial result and never in another failure path.
BadTimestamp ==
    \E i \in DOMAIN reviews :
        /\ Complete(reviews[i])
        /\ pd_to_datetime(reviews[i].publishedAtDate) < 0

C17_BadTimestampRejected ==
    (run_out.kind # "pending" /\ BadTimestamp) =>
        /\ run_out.kind = "none"
        /\ pc = "done" => response.status = "http500"

\* C18: when two or more sub-scores tie for the maximum and the maximum is
\* above 20, the reason named in the summary is the first of the tied
\* factors in the order F1 (low-star reviews), F2 (negative keywords), F3
\* (declining trend), F5 (negative sentiment), whatever the weights and the
\* order of the reviews.
C18_TieBreak ==
    (score_out.kind = "returned" /\ NamesReason) =>
        \E i \in 1..4 :
            /\ score_out.summary.reason =
                  << "low_star_reviews", "negative_keywords", "declining_trend",
                     "negative_sentiment" >>[i]
            /\ \A j \in 1..4 : RatLeq(score_out.scores[j], score_out.scores[i])
            /\ \A j \in 1..(i - 1) : RatLess(score_out.scores[j], score_out.scores[i])

\* F2 and F5 tie for the maximum, F1 is below it, and the weights are not
\* the default ones
C18_Witness ==
    /\ score_out.kind = "returned"
    /\ NamesReason
    /\ score_out.scores[2] = score_out.scores[4]
    /\ Above20(score_out.scores[2])
    /\ RatLess(score_out.scores[1], score_out.scores[2])
    /\ RatLess(score_out.scores[3], score_out.scores[2])
    /\ weights # DefaultWeights
    /\ score_out.summary.reason = "negative_keywords"

\* F1 and F2 tie for the maximum
C18_WitnessFirst ==
    /\ score_out.kind = "returned"
    /\ score_out.scores[1] = score_out.scores[2]
    /\ Above20(score_out.scores[1])
    /\ score_out.summary.reason = "low_star_reviews"

\* C19: after any sequence of requests, the failed ones included, a venue
\* document is in the places collection only if all the reviews scraped
\* for that venue are in the reviews collection.
StoredReviews(id) ==
    LET documents == find(reviews_collection, id)
    IN  [i \in DOMAIN documents |-> Scraped(documents[i])]

C19_CacheComplete ==
    pc = "idle" =>
        \A id \in DOMAIN places_collection :
            StoredReviews(id) = DictGet(history[id].item, "reviews", <<>>)

\* C20: a request served from the cache hands to the pipeline the reviews,
\* in their order, and the venue metadata of the request that filled the
\* cache, and it returns the same score, tier, summary and key phrases when
\* it reads the same analysis time.
CacheServed == "_id" \in DOMAIN place_info

C20_CacheTransparent ==
    CacheServed =>
        LET filled == history[place_id]
        IN  /\ Scraped(place_info) = Scraped(filled.item)
            /\ [i \in DOMAIN reviews |-> Scraped(reviews[i])]
                  = DictGet(filled.item, "reviews", <<>>)
            /\ (pc = "done" /\ filled.answered /\ filled.time = analysis_time) =>
                  /\ SameResult(filled.response, response)
                  /\ filled.response.key_negative_keywords = response.key_negative_keywords
                  /\ filled.response.positive_points = response.positive_points

\* when the request that filled the cache ran the pipeline, all its
\* reviews were stored and the later requests answer as it did
TransparentAfterAnswer ==
    (CacheServed /\ history[place_id].answered) => C20_CacheTransparent

\* a request served from the cache has answered with a trend, as the
\* request that filled the cache did at the same analysis time
TransparentAfterAnswerReached ==
    /\ CacheServed
    /\ pc = "done"
    /\ history[place_id].answered
    /\ history[place_id].time = analysis_time
    /\ response.status = "ok"
    /\ response.key_negative_keywords # <<>>

====
